---------------------------- MODULE Spec2Model ----------------------------
(***************************************************************************)
(* Distraction Blocker: the background service worker (the authority that  *)
(* owns settings, the unlock ledger and the re-block alarms) and the       *)
(* content script of one page (overlay, voice unlock, countdown).          *)
(*                                                                         *)
(* Strings are sequences of one-character strings, so that toLowerCase,    *)
(* trim, includes, endsWith and the edit distance are computed and not     *)
(* assumed.  Time is Date.now() in milliseconds.                           *)
(***************************************************************************)
EXTENDS Integers, Sequences, FiniteSets, TLC

VARIABLES
    \* ---- the authority (background service worker) ----
    now,            \* Date.now(), milliseconds
    settings,       \* chrome.storage.local 'settings'
    unlockTimers,   \* chrome.storage.local 'unlockTimers': domain -> entry
    alarms,         \* chrome.alarms: alarm name -> when
    unlockCalls,    \* running unlockSite(domain, durationSeconds) calls
    alarmCalls,     \* running onAlarm listeners, by alarm name
    sweep,          \* the running cleanupExpiredTimers call
    pull,           \* the running checkBlocked / getUnlockStatus handler
    lastGrant,      \* history: per domain, the last stamped grant
    grants,         \* history: how many unlockSite calls were made
    boots,          \* history: how many times the service worker was started again
    \* ---- pure-function harness ----
    fnIn,           \* the inputs of the function under test
    fnOut,          \* its result
    \* ---- one page (content script) ----
    page,           \* the content script's globals, its overlay and its browser objects
    voiceCall,      \* the running startVoiceUnlock call
    timeouts,       \* pending setTimeout callbacks
    pulls,          \* checkBlocked messages of the page and their responses, oldest first
    unlockReq,      \* the page's unlockSite message and its response
    inbox,          \* pushes sent to the page's tab and not yet delivered
    hist            \* history: what the page was told and what it did

authVars == <<now, settings, unlockTimers, alarms, unlockCalls, alarmCalls,
              sweep, pull, lastGrant, grants, boots>>
fnVars == <<fnIn, fnOut>>
pageVars == <<page, voiceCall, timeouts, pulls, unlockReq, inbox, hist>>
\* what the service worker's handlers never touch
elsewhere == <<boots, fnIn, fnOut, page, voiceCall, timeouts, pulls, unlockReq, inbox, hist>>

-----------------------------------------------------------------------------
(* Bounds of the model *)

\* seconds of clock the model runs through
MaxSec == 1
\* longest hostname drawn for the matcher
MaxHostLen == 4
\* longest rule list drawn for the matcher
MaxRules == 2
\* unlockSite calls in one run
MaxGrants == 2
\* handlers of the service worker that may be between two awaits at once
MaxInFlight == 2

-----------------------------------------------------------------------------
(* Strings *)

RECURSIVE SeqsUpTo(_, _)
SeqsUpTo(S, n) ==
    IF n = 0 THEN {<<>>}
    ELSE LET shorter == SeqsUpTo(S, n - 1)
         IN  shorter \cup {Append(s, c) : s \in {t \in shorter : Len(t) = n - 1}, c \in S}

\* String.prototype.toLowerCase on one character
LowerChar(c) ==
    CASE c = "A" -> "a"
      [] c = "B" -> "b"
      [] c = "I" -> "i"
      [] c = "L" -> "l"
      [] c = "M" -> "m"
      [] OTHER -> c
toLowerCase(s) == [i \in 1..Len(s) |-> LowerChar(s[i])]

\* String.prototype.endsWith
endsWith(s, suffix) ==
    /\ Len(suffix) <= Len(s)
    /\ SubSeq(s, Len(s) - Len(suffix) + 1, Len(s)) = suffix

-----------------------------------------------------------------------------
(* Domain matcher *)

\* the value null (also how the empty string, equally falsy, reads)
NULL == <<>>

\* new URL(url): throws on an unparsable url, else gives the hostname
ParseURL(url) == IF url.parses THEN [ok |-> TRUE, hostname |-> url.host]
                 ELSE [ok |-> FALSE, hostname |-> NULL]

RECURSIVE FirstMatch(_, _, _)
FirstMatch(hostname, blockedSites, i) ==
    IF i > Len(blockedSites) THEN NULL
    ELSE LET site == blockedSites[i]
         IN  IF ~site.enabled THEN FirstMatch(hostname, blockedSites, i + 1)
             ELSE IF hostname = site.domain \/ endsWith(hostname, <<".">> \o site.domain)
                  THEN site.domain
                  ELSE FirstMatch(hostname, blockedSites, i + 1)

\* a matcher that forgets the enabled flag
getBlockedDomainAnyRule(url, blockedSites) ==
    LET urlObj == ParseURL(url)
    IN  IF ~urlObj.ok THEN NULL
        ELSE FirstMatch(toLowerCase(urlObj.hostname),
                        [i \in 1..Len(blockedSites) |->
                            [blockedSites[i] EXCEPT !.enabled = TRUE]], 1)

getBlockedDomain(url, blockedSites) ==
    LET urlObj == ParseURL(url)
    IN  IF ~urlObj.ok THEN NULL   \* catch (e): invalid URL
        ELSE FirstMatch(toLowerCase(urlObj.hostname), blockedSites, 1)


-----------------------------------------------------------------------------
(* Configuration and the universe of inputs *)

DomA == <<"a", ".", "c">>
DomB == <<"b", ".", "c">>

UNLOCK_PHRASE == <<"i", "'", "m", " ", "a", " ", "l", "o", "s", "e", "r">>
OtherPhrase == <<"l", "e", "t", " ", "m", "e", " ", "i", "n">>

DEFAULT_BLOCKED_SITES ==
    << [domain |-> DomA, enabled |-> TRUE], [domain |-> DomB, enabled |-> TRUE] >>

DEFAULT_SETTINGS ==
    [enabled |-> TRUE, unlockPhrase |-> UNLOCK_PHRASE, blockedSites |-> DEFAULT_BLOCKED_SITES]

\* the settings objects a saveSettings message may carry
SettingsPool ==
    { DEFAULT_SETTINGS,
      [DEFAULT_SETTINGS EXCEPT !.enabled = FALSE],
      [DEFAULT_SETTINGS EXCEPT !.blockedSites[1].enabled = FALSE],
      [DEFAULT_SETTINGS EXCEPT !.unlockPhrase = OtherPhrase] }

\* the domains a message may name
Domains == {DomA, DomB}

\* durationSeconds of an unlockSite message
Durations == {1, 2}

\* the urls a checkBlocked message may carry
Urls ==
    { [parses |-> FALSE, host |-> NULL],
      [parses |-> TRUE, host |-> DomA],
      [parses |-> TRUE, host |-> <<"W", ".", "a", ".", "c">>],
      [parses |-> TRUE, host |-> <<"x", "a", ".", "c">>],
      [parses |-> TRUE, host |-> DomB] }

\* the open tabs and their urls (chrome.tabs.query({}))
Tabs == {"tabA", "tabB"}
TabUrl(tab) == IF tab = "tabA" THEN [parses |-> TRUE, host |-> <<"W", ".", "a", ".", "c">>]
               ELSE [parses |-> TRUE, host |-> DomB]

\* the senders of unlockSite messages
Callers == {"tabA", "tabB"}

-----------------------------------------------------------------------------
(* Clock *)

MsPerSec == 1000

\* the instants the clock visits: around every full second
Instants == {k * MsPerSec + o : k \in 0..MaxSec, o \in {0, 1}}

LaterInstants(t) == {i \in Instants : i > t}
NextInstant(t) == CHOOSE i \in LaterInstants(t) : \A j \in LaterInstants(t) : i <= j

\* a second Date.now() in the same synchronous run: the same millisecond or the next
NowReads(t) == {t} \cup ({t + 1} \cap Instants)

\* Math.ceil(ms / 1000)
CeilSeconds(ms) == IF ms >= 0 THEN (ms + MsPerSec - 1) \div MsPerSec
                   ELSE -((-ms) \div MsPerSec)

-----------------------------------------------------------------------------
(* Unlock ledger: a JavaScript object, domain -> {unlockedUntil, unlockedAt} *)

EmptyObject == [d \in {} |-> 0]

\* obj[k] = v that leaves an existing obj[k] alone
SetKeyIfAbsent(obj, k, v) ==
    [x \in (DOMAIN obj) \cup {k} |-> IF x \in DOMAIN obj THEN obj[x] ELSE v]

SetKey(obj, k, v) == [x \in (DOMAIN obj) \cup {k} |-> IF x = k THEN v ELSE obj[x]]
DeleteKey(obj, k) == [x \in (DOMAIN obj) \ {k} |-> obj[x]]

\* isDomainUnlocked with the expiry test off by one (>= instead of >)
isDomainUnlockedInclusive(timers, domain, t1, t2) ==
    IF domain \in DOMAIN timers /\ timers[domain].unlockedUntil >= t1
    THEN [unlocked |-> TRUE,
          remainingTime |-> CeilSeconds(timers[domain].unlockedUntil - t2)]
    ELSE [unlocked |-> FALSE, remainingTime |-> 0]

\* isDomainUnlocked, given the object read and its two Date.now() reads
isDomainUnlocked(timers, domain, t1, t2) ==
    IF domain \in DOMAIN timers /\ timers[domain].unlockedUntil > t1
    THEN [unlocked |-> TRUE,
          remainingTime |-> CeilSeconds(timers[domain].unlockedUntil - t2)]
    ELSE [unlocked |-> FALSE, remainingTime |-> 0]

\* the loop with the expiry test unlockedUntil < now
WithoutExpiredStrict(timers, t) ==
    [d \in {k \in DOMAIN timers : ~(timers[k].unlockedUntil < t)} |-> timers[d]]

\* cleanupExpiredTimers' loop: the object without its expired entries
WithoutExpired(timers, t) ==
    [d \in {k \in DOMAIN timers : ~(timers[k].unlockedUntil <= t)} |-> timers[d]]

\* alarm names
AlarmName(domain) == <<"reblock_">> \o domain
AlarmNames == {AlarmName(d) : d \in Domains}
\* alarm.name.startsWith('reblock_') and alarm.name.replace('reblock_', '')
IsReblock(name) == Len(name) > 0 /\ Head(name) = "reblock_"
AlarmDomain(name) == Tail(name)

\* notifyTabsForDomain without the tabDomain === domain test
notifyTabsForDomainUnfiltered(domain, action, remainingTime) ==
    { [tab |-> tab, action |-> action, domain |-> domain, remainingTime |-> remainingTime] :
        tab \in Tabs }

\* notifyTabsForDomain: the messages sent
notifyTabsForDomain(domain, action, remainingTime) ==
    { [tab |-> tab, action |-> action, domain |-> domain, remainingTime |-> remainingTime] :
        tab \in {t \in Tabs : getBlockedDomain(TabUrl(t), settings.blockedSites) = domain} }

-----------------------------------------------------------------------------
(* Lock decision engine *)

\* the handlers that have started and not yet returned
Running ==
    Cardinality({c \in DOMAIN unlockCalls : unlockCalls[c].pc # "idle"})
    + Cardinality({n \in DOMAIN alarmCalls : alarmCalls[n].pc # "idle"})
    + (IF sweep.pc # "idle" THEN 1 ELSE 0)
    + (IF pull.pc # "idle" THEN 1 ELSE 0)

\* history: no grant stamped yet
NoGrant == [T |-> -1, s |-> 0]

NoDecision == [shouldBlock |-> FALSE, domain |-> NULL, remainingTime |-> 0]

IdlePull == [pc |-> "idle", kind |-> "none", url |-> [parses |-> FALSE, host |-> NULL],
             domain |-> NULL, settings |-> DEFAULT_SETTINGS, timers |-> EmptyObject,
             nowRead |-> 0, result |-> NoDecision, granted |-> NoGrant]

\* shouldBlockTab up to its second await: the early returns, or the domain to look up
\* (with the global switch ignored)
MatchStepIgnoringEnabled(url, s) ==
    LET blockedDomain == getBlockedDomain(url, s.blockedSites)
    IN  IF blockedDomain = NULL THEN [returns |-> TRUE, domain |-> NULL]
        ELSE [returns |-> FALSE, domain |-> blockedDomain]

MatchStep(url, s) ==
    IF ~s.enabled THEN [returns |-> TRUE, domain |-> NULL]
    ELSE LET blockedDomain == getBlockedDomain(url, s.blockedSites)
         IN  IF blockedDomain = NULL THEN [returns |-> TRUE, domain |-> NULL]
             ELSE [returns |-> FALSE, domain |-> blockedDomain]

\* handleMessage 'checkBlocked': shouldBlockTab(url) starts, reads 'settings'
CheckBlockedStart(url) ==
    /\ pull.pc = "idle"
    /\ Running < MaxInFlight
    /\ pull' = [IdlePull EXCEPT !.pc = "gotSettings", !.kind = "checkBlocked",
                                !.url = url, !.settings = settings]
    /\ UNCHANGED elsewhere
    /\ UNCHANGED <<now, settings, unlockTimers, alarms, unlockCalls, alarmCalls,
                   sweep, lastGrant, grants>>

\* shouldBlockTab after the settings arrived: early return, or isDomainUnlocked
\* starts and reads 'unlockTimers'
CheckBlockedMatch ==
    /\ pull.pc = "gotSettings"
    /\ LET m == MatchStep(pull.url, pull.settings)
       IN  pull' = IF m.returns
                   THEN [pull EXCEPT !.pc = "done", !.result = NoDecision]
                   ELSE [pull EXCEPT !.pc = "gotTimers", !.domain = m.domain,
                                     !.timers = unlockTimers]
    /\ UNCHANGED elsewhere
    /\ UNCHANGED <<now, settings, unlockTimers, alarms, unlockCalls, alarmCalls,
                   sweep, lastGrant, grants>>

\* handleMessage 'getUnlockStatus': isDomainUnlocked(domain) starts, reads 'unlockTimers'
GetUnlockStatusStart(domain) ==
    /\ pull.pc = "idle"
    /\ Running < MaxInFlight
    /\ pull' = [IdlePull EXCEPT !.pc = "gotTimers", !.kind = "getUnlockStatus",
                                !.domain = domain, !.timers = unlockTimers,
                                !.granted = lastGrant[domain]]
    /\ UNCHANGED elsewhere
    /\ UNCHANGED <<now, settings, unlockTimers, alarms, unlockCalls, alarmCalls,
                   sweep, lastGrant, grants>>

\* an isDomainUnlocked that also drops the expired entries it has read
IsDomainUnlockedFinishEvicting ==
    /\ pull.pc = "gotTimers"
    /\ \E t2 \in NowReads(now) :
         LET unlockStatus == isDomainUnlocked(pull.timers, pull.domain, now, t2)
         IN  /\ pull' = [pull EXCEPT !.pc = "done", !.nowRead = now,
                            !.result = [shouldBlock |-> ~unlockStatus.unlocked,
                                        domain |-> pull.domain,
                                        remainingTime |-> unlockStatus.remainingTime]]
             /\ now' = t2
    /\ unlockTimers' = WithoutExpired(pull.timers, now)
    /\ UNCHANGED elsewhere
    /\ UNCHANGED <<settings, alarms, unlockCalls, alarmCalls, sweep, lastGrant, grants>>

\* isDomainUnlocked after the object arrived, and the caller's return value
IsDomainUnlockedFinish ==
    /\ pull.pc = "gotTimers"
    /\ \E t2 \in NowReads(now) :
         LET unlockStatus == isDomainUnlocked(pull.timers, pull.domain, now, t2)
         IN  /\ pull' = [pull EXCEPT !.pc = "done", !.nowRead = now,
                            !.result = [shouldBlock |-> ~unlockStatus.unlocked,
                                        domain |-> pull.domain,
                                        remainingTime |-> unlockStatus.remainingTime]]
             /\ now' = t2
    /\ UNCHANGED elsewhere
    /\ UNCHANGED <<settings, unlockTimers, alarms, unlockCalls, alarmCalls,
                   sweep, lastGrant, grants>>

\* sendResponse: the handler is over
PullRespond ==
    /\ pull.pc = "done"
    /\ pull' = IdlePull
    /\ UNCHANGED elsewhere
    /\ UNCHANGED <<now, settings, unlockTimers, alarms, unlockCalls, alarmCalls,
                   sweep, lastGrant, grants>>

\* handleMessage 'saveSettings'
SaveSettings(s) ==
    /\ settings' = s
    /\ UNCHANGED elsewhere
    /\ UNCHANGED <<now, unlockTimers, alarms, unlockCalls, alarmCalls,
                   sweep, pull, lastGrant, grants>>

-----------------------------------------------------------------------------
(* Grants *)

IdleCall == [pc |-> "idle", domain |-> NULL, durationSeconds |-> 0, timers |-> EmptyObject,
             sent |-> {}]

\* unlockSite(domain, durationSeconds) starts: reads 'unlockTimers'
UnlockSiteStart(c, domain, durationSeconds) ==
    /\ unlockCalls[c].pc = "idle"
    /\ Running < MaxInFlight
    /\ unlockCalls' = [unlockCalls EXCEPT ![c] =
                          [IdleCall EXCEPT !.pc = "gotTimers", !.domain = domain,
                                           !.durationSeconds = durationSeconds,
                                           !.timers = unlockTimers]]
    /\ grants < MaxGrants
    /\ grants' = grants + 1
    /\ UNCHANGED elsewhere
    /\ UNCHANGED <<now, settings, unlockTimers, alarms, alarmCalls,
                   sweep, pull, lastGrant>>

\* the entry unlockSite builds from its two Date.now() reads
NewEntry(durationSeconds, t1, t2) ==
    [unlockedUntil |-> t1 + durationSeconds * MsPerSec, unlockedAt |-> t2]

\* unlockSite after the object arrived: stamps the entry, writes the object back
UnlockSiteStore(c) ==
    LET call == unlockCalls[c] IN
    /\ call.pc = "gotTimers"
    /\ \E t2 \in NowReads(now) :
         LET written == SetKey(call.timers, call.domain,
                               NewEntry(call.durationSeconds, now, t2))
         IN  /\ unlockTimers' = written
             /\ unlockCalls' = [unlockCalls EXCEPT ![c].pc = "stored", ![c].timers = written]
             /\ now' = t2
    /\ lastGrant' = [lastGrant EXCEPT ![call.domain] = [T |-> now, s |-> call.durationSeconds]]
    /\ UNCHANGED elsewhere
    /\ UNCHANGED <<settings, alarms, alarmCalls, sweep, pull, grants>>

\* unlockSite after the write: chrome.alarms.create, then notifyTabsForDomain starts
UnlockSiteArm(c) ==
    LET call == unlockCalls[c] IN
    /\ call.pc = "stored"
    /\ alarms' = SetKey(alarms, AlarmName(call.domain), now + call.durationSeconds * MsPerSec)
    /\ unlockCalls' = [unlockCalls EXCEPT ![c].pc = "notify"]
    /\ UNCHANGED elsewhere
    /\ UNCHANGED <<now, settings, unlockTimers, alarmCalls, sweep, pull, lastGrant, grants>>

\* notifyTabsForDomain(domain, 'hideBlockOverlay', durationSeconds) sends its messages
UnlockSiteNotify(c) ==
    LET call == unlockCalls[c] IN
    /\ call.pc = "notify"
    /\ unlockCalls' = [unlockCalls EXCEPT ![c].pc = "done", ![c].sent =
            notifyTabsForDomain(call.domain, "hideBlockOverlay", call.durationSeconds)]
    /\ UNCHANGED elsewhere
    /\ UNCHANGED <<now, settings, unlockTimers, alarms, alarmCalls, sweep, pull, lastGrant, grants>>

\* unlockSite returns { success: true, unlockedUntil, duration }
UnlockSiteReturn(c) ==
    /\ unlockCalls[c].pc = "done"
    /\ unlockCalls' = [unlockCalls EXCEPT ![c] = IdleCall]
    /\ UNCHANGED elsewhere
    /\ UNCHANGED <<now, settings, unlockTimers, alarms, alarmCalls, sweep, pull, lastGrant, grants>>

-----------------------------------------------------------------------------
(* Alarms and the periodic sweep *)

IdleTask == [pc |-> "idle", timers |-> EmptyObject, sent |-> {}]

\* chrome.alarms fires a due alarm (and forgets it); the listener reads 'unlockTimers'
AlarmFire(name) ==
    /\ name \in DOMAIN alarms
    /\ alarms[name] <= now
    /\ alarmCalls[name].pc = "idle"
    /\ Running < MaxInFlight
    /\ IsReblock(name)
    /\ alarms' = DeleteKey(alarms, name)
    /\ alarmCalls' = [alarmCalls EXCEPT ![name] = [IdleTask EXCEPT !.pc = "gotTimers", !.timers = unlockTimers]]
    /\ UNCHANGED elsewhere
    /\ UNCHANGED <<now, settings, unlockTimers, unlockCalls, sweep, pull, lastGrant, grants>>

\* the listener after the object arrived: delete unlockTimers[domain], write back
AlarmEvict(name) ==
    /\ alarmCalls[name].pc = "gotTimers"
    /\ unlockTimers' = DeleteKey(alarmCalls[name].timers, AlarmDomain(name))
    /\ alarmCalls' = [alarmCalls EXCEPT ![name].pc = "stored", ![name].timers = unlockTimers']
    /\ UNCHANGED elsewhere
    /\ UNCHANGED <<now, settings, alarms, unlockCalls, sweep, pull, lastGrant, grants>>

\* notifyTabsForDomain(domain, 'showBlockOverlay') sends its messages
AlarmNotify(name) ==
    /\ alarmCalls[name].pc = "stored"
    /\ alarmCalls' = [alarmCalls EXCEPT ![name].pc = "done", ![name].sent =
            notifyTabsForDomain(AlarmDomain(name), "showBlockOverlay", 0)]
    /\ UNCHANGED elsewhere
    /\ UNCHANGED <<now, settings, unlockTimers, alarms, unlockCalls, sweep, pull, lastGrant, grants>>

\* the listener returns
AlarmReturn(name) ==
    /\ alarmCalls[name].pc = "done"
    /\ alarmCalls' = [alarmCalls EXCEPT ![name] = IdleTask]
    /\ UNCHANGED elsewhere
    /\ UNCHANGED <<now, settings, unlockTimers, alarms, unlockCalls, sweep, pull, lastGrant, grants>>

\* setInterval(cleanupExpiredTimers, 60000) fires: reads 'unlockTimers'
SweepStart ==
    /\ sweep.pc = "idle"
    /\ Running < MaxInFlight
    /\ sweep' = [IdleTask EXCEPT !.pc = "gotTimers", !.timers = unlockTimers]
    /\ UNCHANGED elsewhere
    /\ UNCHANGED <<now, settings, unlockTimers, alarms, unlockCalls, alarmCalls,
                   pull, lastGrant, grants>>

\* cleanupExpiredTimers after the object arrived
SweepFinish ==
    /\ sweep.pc = "gotTimers"
    /\ LET cleaned == WithoutExpired(sweep.timers, now)
           hasChanges == cleaned # sweep.timers
       IN  unlockTimers' = IF hasChanges THEN cleaned ELSE unlockTimers
    /\ sweep' = IdleTask
    /\ UNCHANGED elsewhere
    /\ UNCHANGED <<now, settings, alarms, unlockCalls, alarmCalls, pull, lastGrant, grants>>

\* time passes
Tick ==
    /\ LaterInstants(now) # {}
    /\ now' = NextInstant(now)
    /\ UNCHANGED elsewhere
    /\ UNCHANGED <<settings, unlockTimers, alarms, unlockCalls, alarmCalls,
                   sweep, pull, lastGrant, grants>>

-----------------------------------------------------------------------------
(* The authority *)

vars == <<now, settings, unlockTimers, alarms, unlockCalls, alarmCalls,
          sweep, pull, lastGrant, grants, boots, fnIn, fnOut,
          page, voiceCall, timeouts, pulls, unlockReq, inbox, hist>>

\* the content script's state when it is injected
NoVerdict == [accepted |-> FALSE, transcript |-> <<>>, secretPhrase |-> <<>>]

\* countdownInterval = null, and no unlockSite message
NoInterval == [set |-> FALSE, remaining |-> 0, due |-> 0]
NoRequest == [state |-> "none", domain |-> NULL, duration |-> 0]

PageLoaded ==
    [isOverlayVisible |-> FALSE, currentDomain |-> NULL, countdownInterval |-> NoInterval,
     floating |-> FALSE, panel |-> "none", analyser |-> FALSE, microphone |-> FALSE,
     volumeSamples |-> <<>>, isListening |-> FALSE, recognition |-> 0,
     monitors |-> 0, engines |-> <<>>]

PageIdle ==
    /\ page = PageLoaded
    /\ voiceCall = FALSE
    /\ timeouts = {}
    /\ pulls = <<>>
    /\ unlockReq = NoRequest
    /\ inbox = {}
    /\ hist = [inits |-> 0, visits |-> 0, sessions |-> 0, sessionFrames |-> <<>>,
               sent |-> 0, pushed |-> FALSE, lastVerdict |-> NoVerdict]

FnIdle == fnIn = <<>> /\ fnOut = <<>> /\ boots = 0 /\ PageIdle

Init ==
    /\ now = 0
    /\ settings = DEFAULT_SETTINGS
    /\ unlockTimers = EmptyObject
    /\ alarms = EmptyObject
    /\ unlockCalls = [c \in Callers |-> IdleCall]
    /\ alarmCalls = [n \in AlarmNames |-> IdleTask]
    /\ sweep = IdleTask
    /\ pull = IdlePull
    /\ lastGrant = [d \in Domains |-> NoGrant]
    /\ grants = 0
    /\ FnIdle

Next ==
    \/ \E d \in Domains : GetUnlockStatusStart(d)
    \/ IsDomainUnlockedFinish
    \/ PullRespond
    \/ \E c \in Callers, d \in Domains, s \in Durations : UnlockSiteStart(c, d, s)
    \/ \E c \in Callers : UnlockSiteStore(c)
    \/ \E c \in Callers : UnlockSiteArm(c)
    \/ \E c \in Callers : UnlockSiteNotify(c)
    \/ \E c \in Callers : UnlockSiteReturn(c)
    \/ \E n \in AlarmNames : AlarmFire(n)
    \/ \E n \in AlarmNames : AlarmEvict(n)
    \/ \E n \in AlarmNames : AlarmNotify(n)
    \/ \E n \in AlarmNames : AlarmReturn(n)
    \/ SweepStart
    \/ SweepFinish
    \/ Tick

Spec == Init /\ [][Next]_vars


-----------------------------------------------------------------------------
(* The decision engine over any settings, ledger and time *)

Entries == UNION {{NewEntry(s, t, t2) : t2 \in NowReads(t)} : s \in Durations, t \in Instants}
Ledgers == UNION {[D -> Entries] : D \in SUBSET Domains}

InitDecide ==
    /\ now \in Instants
    /\ settings \in SettingsPool
    /\ unlockTimers \in Ledgers
    /\ alarms = EmptyObject
    /\ unlockCalls = [c \in Callers |-> IdleCall]
    /\ alarmCalls = [n \in AlarmNames |-> IdleTask]
    /\ sweep = IdleTask
    /\ pull = IdlePull
    /\ lastGrant = [d \in Domains |-> NoGrant]
    /\ grants = 0
    /\ FnIdle

NextDecide ==
    \/ \E url \in Urls : CheckBlockedStart(url)
    \/ CheckBlockedMatch
    \/ IsDomainUnlockedFinish
    \/ PullRespond
    \/ \E s \in SettingsPool : SaveSettings(s)
    \/ SweepStart
    \/ SweepFinish
    \/ Tick

SpecDecide == InitDecide /\ [][NextDecide]_vars

-----------------------------------------------------------------------------
(* getBlockedDomain over bounded urls and rule lists *)

HostChars == {"a", "A", "b", "."}
RuleDomains == {<<"a">>, <<"b">>, <<"a", ".", "b">>}

MatcherUrls ==
    {[parses |-> FALSE, host |-> NULL]}
    \cup {[parses |-> TRUE, host |-> h] : h \in SeqsUpTo(HostChars, MaxHostLen) \ {<<>>}}

RuleLists ==
    SeqsUpTo({[domain |-> d, enabled |-> e] : d \in RuleDomains, e \in BOOLEAN}, MaxRules)

NotRun == [done |-> FALSE, value |-> NULL]

AuthorityIdle ==
    /\ now = 0
    /\ settings = DEFAULT_SETTINGS
    /\ unlockTimers = EmptyObject
    /\ alarms = EmptyObject
    /\ unlockCalls = [c \in Callers |-> IdleCall]
    /\ alarmCalls = [n \in AlarmNames |-> IdleTask]
    /\ sweep = IdleTask
    /\ pull = IdlePull
    /\ lastGrant = [d \in Domains |-> NoGrant]
    /\ grants = 0
    /\ boots = 0
    /\ PageIdle

InitMatch ==
    /\ fnIn \in [url : MatcherUrls, blockedSites : RuleLists]
    /\ fnOut = NotRun
    /\ AuthorityIdle

RunGetBlockedDomain ==
    /\ ~fnOut.done
    /\ fnOut' = [done |-> TRUE, value |-> getBlockedDomain(fnIn.url, fnIn.blockedSites)]
    /\ UNCHANGED <<fnIn, authVars, pageVars>>

NextMatch == RunGetBlockedDomain

SpecMatch == InitMatch /\ [][NextMatch]_vars

-----------------------------------------------------------------------------
(* Grants alone: unlockSite calls, settings changes and the clock *)

NextGrant ==
    \/ \E c \in Callers, d \in Domains, s \in Durations : UnlockSiteStart(c, d, s)
    \/ \E c \in Callers : UnlockSiteStore(c)
    \/ \E c \in Callers : UnlockSiteArm(c)
    \/ \E c \in Callers : UnlockSiteNotify(c)
    \/ \E c \in Callers : UnlockSiteReturn(c)
    \/ \E s \in SettingsPool : SaveSettings(s)
    \/ Tick

SpecGrant == Init /\ [][NextGrant]_vars

-----------------------------------------------------------------------------
(* Evictions alone: the wake-up of one domain and the periodic sweep, over any ledger.
   The wake-ups of the other entries are not due in this window. *)

InitEvict ==
    /\ now = 0
    /\ settings = DEFAULT_SETTINGS
    /\ unlockTimers \in Ledgers
    /\ \E d \in DOMAIN unlockTimers :
         alarms = SetKey(EmptyObject, AlarmName(d), unlockTimers[d].unlockedUntil)
    /\ unlockCalls = [c \in Callers |-> IdleCall]
    /\ alarmCalls = [n \in AlarmNames |-> IdleTask]
    /\ sweep = IdleTask
    /\ pull = IdlePull
    /\ lastGrant = [d \in Domains |-> NoGrant]
    /\ grants = 0
    /\ FnIdle

NextEvict ==
    \/ \E n \in AlarmNames : AlarmFire(n)
    \/ \E n \in AlarmNames : AlarmEvict(n)
    \/ \E n \in AlarmNames : AlarmNotify(n)
    \/ \E n \in AlarmNames : AlarmReturn(n)
    \/ SweepStart
    \/ SweepFinish
    \/ Tick

SpecEvict == InitEvict /\ [][NextEvict]_vars

-----------------------------------------------------------------------------
(* Phrase verification: validatePhrase's match test and levenshteinDistance *)

\* positions of the phrase that a drawn transcript may alter
MaxEdits == 5

\* String.prototype.trim: drop leading and trailing blanks
RECURSIVE trimStart(_)
trimStart(s) ==
    IF s # <<>> /\ Head(s) = " " THEN trimStart(Tail(s)) ELSE s

RECURSIVE trimEnd(_)
trimEnd(s) ==
    IF s # <<>> /\ s[Len(s)] = " " THEN trimEnd(SubSeq(s, 1, Len(s) - 1)) ELSE s

trim(s) == trimEnd(trimStart(s))

\* String.prototype.includes
includes(s, sub) ==
    \E k \in 0..(Len(s) - Len(sub)) : SubSeq(s, k + 1, k + Len(sub)) = sub

Min3(a, b, c) ==
    IF a <= b /\ a <= c THEN a ELSE IF b <= c THEN b ELSE c

\* one row dp[i][0..n] of the table, filled left to right; cur[j + 1] is dp[i][j]
RECURSIVE InsertDeleteRow(_, _, _, _, _)
InsertDeleteRow(str1, str2, i, prev, cur) ==
    IF Len(cur) = Len(str2) + 1
    THEN cur
    ELSE LET j == Len(cur)
         IN  InsertDeleteRow(str1, str2, i, prev,
                 Append(cur, IF str1[i] = str2[j]
                             THEN prev[j]
                             ELSE 1 + (IF prev[j + 1] <= cur[j] THEN prev[j + 1] ELSE cur[j])))

RECURSIVE InsertDeleteRows(_, _, _, _)
InsertDeleteRows(str1, str2, i, prev) ==
    IF i > Len(str1)
    THEN prev
    ELSE InsertDeleteRows(str1, str2, i + 1, InsertDeleteRow(str1, str2, i, prev, <<i>>))

\* the table without the dp[i-1][j-1] term of the minimum
levenshteinDistanceNoSubstitute(str1, str2) ==
    InsertDeleteRows(str1, str2, 1, [j \in 1..(Len(str2) + 1) |-> j - 1])[Len(str2) + 1]

RECURSIVE LevRow(_, _, _, _, _)
LevRow(str1, str2, i, prev, cur) ==
    IF Len(cur) = Len(str2) + 1
    THEN cur
    ELSE LET j == Len(cur)
         IN  LevRow(str1, str2, i, prev,
                 Append(cur, IF str1[i] = str2[j]
                             THEN prev[j]
                             ELSE 1 + Min3(prev[j + 1], cur[j], prev[j])))

RECURSIVE LevRows(_, _, _, _)
LevRows(str1, str2, i, prev) ==
    IF i > Len(str1)
    THEN prev
    ELSE LevRows(str1, str2, i + 1, LevRow(str1, str2, i, prev, <<i>>))

levenshteinDistance(str1, str2) ==
    LevRows(str1, str2, 1, [j \in 1..(Len(str2) + 1) |-> j - 1])[Len(str2) + 1]

\* the largest distance validatePhrase still accepts
MatchDistance == 3

\* validatePhrase's isMatch, with the distance it computed
isMatch(transcript, phrase) ==
    LET normalizedTranscript == trim(toLowerCase(transcript))
        normalizedPhrase == trim(toLowerCase(phrase))
        distance == levenshteinDistance(normalizedTranscript, normalizedPhrase)
    IN  [isMatch  |-> \/ includes(normalizedTranscript, normalizedPhrase)
                      \/ distance <= MatchDistance,
         distance |-> distance]

\* what the speech engine may hand over: the phrase with some of its odd positions
\* kept, replaced, dropped or preceded by a stray character, possibly capitalised,
\* padded with blanks, or followed by more words
EditOps == {"keep", "substitute", "delete", "insert"}
EditAt(k) == 2 * k - 1

Piece(c, op) ==
    CASE op = "keep" -> <<c>>
      [] op = "substitute" -> <<"x">>
      [] op = "delete" -> <<>>
      [] op = "insert" -> <<"x", c>>

RECURSIVE Edited(_, _, _)
Edited(phrase, ops, p) ==
    IF p > Len(phrase)
    THEN <<>>
    ELSE LET k == (p + 1) \div 2
             op == IF p % 2 = 1 /\ k \in DOMAIN ops THEN ops[k] ELSE "keep"
         IN  Piece(phrase[p], op) \o Edited(phrase, ops, p + 1)

UpperChar(c) ==
    CASE c = "i" -> "I"
      [] c = "a" -> "A"
      [] c = "l" -> "L"
      [] c = "m" -> "M"
      [] OTHER -> c

MoreWords == <<" ", "o", "k", "a", "y">>

Transcripts ==
    { (IF dec.pad THEN <<" ">> ELSE <<>>)
        \o (IF dec.upper
            THEN [i \in 1..Len(Edited(UNLOCK_PHRASE, ops, 1)) |->
                     UpperChar(Edited(UNLOCK_PHRASE, ops, 1)[i])]
            ELSE Edited(UNLOCK_PHRASE, ops, 1))
        \o (IF dec.more THEN MoreWords ELSE <<>>)
        \o (IF dec.pad THEN <<" ", " ">> ELSE <<>>) :
      ops \in [1..MaxEdits -> EditOps],
      dec \in [pad : BOOLEAN, upper : BOOLEAN, more : BOOLEAN] }

InitPhrase ==
    /\ fnIn \in Transcripts
    /\ fnOut = NotRun
    /\ AuthorityIdle

RunValidatePhrase ==
    /\ ~fnOut.done
    /\ fnOut' = [done |-> TRUE, value |-> isMatch(fnIn, UNLOCK_PHRASE)]
    /\ UNCHANGED <<fnIn, authVars, pageVars>>

NextPhrase == RunValidatePhrase

SpecPhrase == InitPhrase /\ [][NextPhrase]_vars

-----------------------------------------------------------------------------
(* The page: the content script of one tab on a blocked site *)

\* clicks on Voice Unlock
MaxSessions == 2
\* animation frames with a loudness reading in one capture session
MaxFrames == 2
\* times the tab becomes visible again
MaxVisits == 1
\* unlockSite messages the page sends
MaxRequests == 1
\* seconds of clock the page runs through
MaxPageSec == 33

PageTab == "tabA"

\* loudness readings of a frame, in dB
Levels == {-40, -20}

\* what the speech engine may hear
PageTranscripts == {UNLOCK_PHRASE, OtherPhrase}

\* a table whose Quiet interval reaches down into the Whisper interval
VOLUME_DURATION_MAP_Overlapping ==
    << [minDb |-> -50, maxDb |-> -35, duration |-> 30],
       [minDb |-> -40, maxDb |-> -25, duration |-> 60],
       [minDb |-> -25, maxDb |-> -15, duration |-> 120],
       [minDb |-> -15, maxDb |-> -5, duration |-> 300],
       [minDb |-> -5, maxDb |-> 0, duration |-> 600] >>

VOLUME_DURATION_MAP ==
    << [minDb |-> -50, maxDb |-> -35, duration |-> 30],
       [minDb |-> -35, maxDb |-> -25, duration |-> 60],
       [minDb |-> -25, maxDb |-> -15, duration |-> 120],
       [minDb |-> -15, maxDb |-> -5, duration |-> 300],
       [minDb |-> -5, maxDb |-> 0, duration |-> 600] >>

\* delay of the setTimeout calls of validatePhrase
ResultDelay == 2000

RemoveAt(s, i) == SubSeq(s, 1, i - 1) \o SubSeq(s, i + 1, Len(s))

\* [...volumeSamples].sort((a, b) => a - b)
RECURSIVE sorted(_)
sorted(s) ==
    IF s = <<>> THEN <<>>
    ELSE LET m == CHOOSE i \in 1..Len(s) :
                      /\ \A j \in 1..Len(s) : s[i] <= s[j]
                      /\ \A j \in 1..(i - 1) : s[j] # s[i]
         IN  <<s[m]>> \o sorted(RemoveAt(s, m))

RECURSIVE SumOf(_)
SumOf(s) == IF s = <<>> THEN 0 ELSE Head(s) + SumOf(Tail(s))

\* calculateAverageVolume without the median fallback: 0 / 0 when trimming leaves nothing
calculateAverageVolumeNoMedian(volumeSamples) ==
    IF Len(volumeSamples) = 0
    THEN [sum |-> -60, count |-> 1]
    ELSE LET all == sorted(volumeSamples)
             trimmed == SubSeq(all, (Len(all) \div 10) + 1, (9 * Len(all)) \div 10)
         IN  [sum |-> SumOf(trimmed), count |-> Len(trimmed)]

\* calculateAverageVolume: the average as the fraction sum / count
calculateAverageVolume(volumeSamples) ==
    IF Len(volumeSamples) = 0
    THEN [sum |-> -60, count |-> 1]
    ELSE LET all == sorted(volumeSamples)
             trimmed == SubSeq(all, (Len(all) \div 10) + 1, (9 * Len(all)) \div 10)
         IN  IF Len(trimmed) = 0
             THEN [sum |-> all[(Len(all) \div 2) + 1], count |-> 1]
             ELSE [sum |-> SumOf(trimmed), count |-> Len(trimmed)]

\* getVolumeDurationMapping(db), db = avg.sum / avg.count
getVolumeDurationMapping(avg) ==
    LET hits == {i \in 1..Len(VOLUME_DURATION_MAP) :
                    /\ avg.sum >= VOLUME_DURATION_MAP[i].minDb * avg.count
                    /\ avg.sum < VOLUME_DURATION_MAP[i].maxDb * avg.count}
    IN  IF hits # {}
        THEN VOLUME_DURATION_MAP[CHOOSE i \in hits : \A j \in hits : i <= j]
        ELSE VOLUME_DURATION_MAP[1]

\* shouldBlockTab(url), served without another handler in between
shouldBlockTab(url, s, timers, t) ==
    LET m == MatchStep(url, s)
    IN  IF m.returns
        THEN NoDecision
        ELSE LET unlockStatus == isDomainUnlocked(timers, m.domain, t, t)
             IN  [shouldBlock |-> ~unlockStatus.unlocked, domain |-> m.domain,
                  remainingTime |-> unlockStatus.remainingTime]

\* ---- the content script's functions, on its state p ----

\* a fresh overlay element shows the unlock section
showBlockOverlay(p) ==
    IF p.isOverlayVisible THEN p
    ELSE [p EXCEPT !.isOverlayVisible = TRUE, !.panel = "unlock"]

\* recognition.stop() leaves the handlers attached: the engine may still deliver.
\* A monitorVolume callback still pending finds isListening false at the next
\* frame and does not reschedule.
stopListening(p) ==
    [p EXCEPT !.isListening = FALSE,
              !.engines = IF p.recognition # 0 /\ p.engines[p.recognition] = "listening"
                          THEN [@ EXCEPT ![p.recognition] = "stopping"]
                          ELSE @,
              !.recognition = 0,
              !.microphone = FALSE,
              !.analyser = FALSE,
              !.volumeSamples = <<>>,
              !.monitors = 0]

hideBlockOverlay(p) ==
    stopListening([p EXCEPT !.isOverlayVisible = FALSE, !.panel = "none"])

\* a resetUnlockUI that leaves the panels as they are
resetUnlockUINoop(p) == p

resetUnlockUI(p) ==
    IF p.panel = "none" THEN p ELSE [p EXCEPT !.panel = "unlock"]

showResult(p) ==
    IF p.panel = "none" THEN p ELSE [p EXCEPT !.panel = "result"]

cancelVoiceUnlock(p) == resetUnlockUI(stopListening(p))

\* startCountdownDisplay(seconds) called at time t
startCountdownDisplay(p, seconds, t) ==
    [p EXCEPT !.floating = IF ~p.isOverlayVisible THEN TRUE ELSE @,
              !.countdownInterval = [set |-> TRUE, remaining |-> seconds,
                                     due |-> t + MsPerSec]]

\* ---- pulls ----

\* the service worker's handler bookkeeping, which the page model leaves idle
handlerVars == <<unlockCalls, alarmCalls, sweep, pull, lastGrant, grants, boots>>
storeVars == <<now, settings, unlockTimers, alarms>>

SendCheckBlocked(src) ==
    pulls' = Append(pulls, [src |-> src, answered |-> FALSE, result |-> NoDecision])

\* init() up to its await: runs when the script is injected and again on window
\* load, before the user gets to the Voice Unlock button
InitStart ==
    /\ hist.inits < 2
    /\ hist.sessions = 0
    /\ SendCheckBlocked("init")
    /\ hist' = [hist EXCEPT !.inits = @ + 1]
    /\ UNCHANGED <<page, voiceCall, timeouts, unlockReq, inbox>>
    /\ UNCHANGED <<storeVars, handlerVars, fnVars>>

\* the visibilitychange listener up to its await
VisibilityStart ==
    /\ hist.visits < MaxVisits
    /\ SendCheckBlocked("visibility")
    /\ hist' = [hist EXCEPT !.visits = @ + 1]
    /\ UNCHANGED <<page, voiceCall, timeouts, unlockReq, inbox>>
    /\ UNCHANGED <<storeVars, handlerVars, fnVars>>

\* handleMessage 'checkBlocked' for the page's oldest unanswered message
ServeCheckBlocked ==
    /\ \E i \in 1..Len(pulls) :
         /\ ~pulls[i].answered
         /\ \A j \in 1..(i - 1) : pulls[j].answered
         /\ pulls' = [pulls EXCEPT ![i] =
                         [@ EXCEPT !.answered = TRUE,
                                   !.result = shouldBlockTab(TabUrl(PageTab), settings,
                                                             unlockTimers, now)]]
    /\ UNCHANGED <<page, voiceCall, timeouts, unlockReq, inbox, hist>>
    /\ UNCHANGED <<storeVars, handlerVars, fnVars>>

\* init() after the response arrived
InitFinish ==
    /\ pulls # <<>>
    /\ Head(pulls).answered
    /\ Head(pulls).src = "init"
    /\ LET result == Head(pulls).result
           after == IF result.shouldBlock
                    THEN showBlockOverlay([page EXCEPT !.currentDomain = result.domain])
                    ELSE IF result.remainingTime > 0
                    THEN startCountdownDisplay([page EXCEPT !.currentDomain = result.domain],
                                               result.remainingTime, now)
                    ELSE page
       IN  page' = after
    /\ pulls' = Tail(pulls)
    /\ UNCHANGED <<voiceCall, timeouts, unlockReq, inbox, hist>>
    /\ UNCHANGED <<storeVars, handlerVars, fnVars>>

\* the visibilitychange listener after the response arrived
VisibilityFinish ==
    /\ pulls # <<>>
    /\ Head(pulls).answered
    /\ Head(pulls).src = "visibility"
    /\ LET result == Head(pulls).result
           after == IF result.shouldBlock /\ ~page.isOverlayVisible
                    THEN showBlockOverlay([page EXCEPT !.currentDomain = result.domain])
                    ELSE IF ~result.shouldBlock /\ page.isOverlayVisible
                    THEN hideBlockOverlay(page)
                    ELSE page
       IN  page' = after
    /\ pulls' = Tail(pulls)
    /\ UNCHANGED <<voiceCall, timeouts, unlockReq, inbox, hist>>
    /\ UNCHANGED <<storeVars, handlerVars, fnVars>>

\* ---- pushes ----

\* chrome.runtime.onMessage listener of the content script
ReceivePush(m) ==
    /\ m \in inbox
    /\ inbox' = inbox \ {m}
    /\ page' = IF m.action = "showBlockOverlay"
               THEN showBlockOverlay([page EXCEPT !.currentDomain = m.domain])
               ELSE IF m.remainingTime > 0
               THEN startCountdownDisplay(hideBlockOverlay(page), m.remainingTime, now)
               ELSE hideBlockOverlay(page)
    /\ hist' = [hist EXCEPT !.pushed = TRUE]
    /\ UNCHANGED <<voiceCall, timeouts, pulls, unlockReq>>
    /\ UNCHANGED <<storeVars, handlerVars, fnVars>>

\* chrome.tabs.sendMessage failed: notifyTabsForDomain's catch
LosePush(m) ==
    /\ m \in inbox
    /\ inbox' = inbox \ {m}
    /\ UNCHANGED <<page, voiceCall, timeouts, pulls, unlockReq, hist>>
    /\ UNCHANGED <<storeVars, handlerVars, fnVars>>

\* ---- voice unlock ----

\* a message round trip is over before the user, the permission prompt or the
\* speech engine acts
Settled == pulls = <<>>

\* click on Voice Unlock: startVoiceUnlock up to getUserMedia
ClickVoiceUnlock ==
    /\ page.isOverlayVisible
    /\ page.panel = "unlock"
    /\ ~voiceCall
    /\ Settled
    /\ hist.sessions < MaxSessions
    /\ page' = [page EXCEPT !.panel = "listening", !.analyser = TRUE]
    /\ voiceCall' = TRUE
    /\ hist' = [hist EXCEPT !.sessions = @ + 1, !.sessionFrames = <<>>]
    /\ UNCHANGED <<timeouts, pulls, unlockReq, inbox>>
    /\ UNCHANGED <<storeVars, handlerVars, fnVars>>

\* getUserMedia resolved: the rest of startAudioCapture (with its call of
\* monitorVolume, which reads db when it runs), startSpeechRecognition, and
\* isListening = true. With the audio context gone the call throws into the catch.
MicGranted(db) ==
    /\ voiceCall
    /\ Settled
    /\ voiceCall' = FALSE
    /\ IF ~page.analyser
       THEN /\ page' = cancelVoiceUnlock(showResult(page))
            /\ hist' = hist
       ELSE LET monitoring == page.isListening /\ page.analyser
                engine == Len(page.engines) + 1
            IN  /\ page' = [page EXCEPT
                              !.microphone = TRUE,
                              !.volumeSamples = IF monitoring THEN <<db>> ELSE <<>>,
                              !.monitors = IF monitoring THEN @ + 1 ELSE @,
                              !.engines = Append(@, "listening"),
                              !.recognition = engine,
                              !.isListening = TRUE]
                /\ hist' = [hist EXCEPT !.sessionFrames = IF monitoring THEN <<db>> ELSE <<>>]
    /\ UNCHANGED <<timeouts, pulls, unlockReq, inbox>>
    /\ UNCHANGED <<storeVars, handlerVars, fnVars>>

\* getUserMedia rejected: startVoiceUnlock's catch
MicDenied ==
    /\ voiceCall
    /\ Settled
    /\ voiceCall' = FALSE
    /\ page' = cancelVoiceUnlock(showResult(page))
    /\ UNCHANGED <<timeouts, pulls, unlockReq, inbox, hist>>
    /\ UNCHANGED <<storeVars, handlerVars, fnVars>>

\* an animation frame while the session's engine listens: the analyser reads db,
\* and every scheduled monitorVolume callback runs
AnimationFrame(db) ==
    /\ page.recognition # 0
    /\ page.engines[page.recognition] = "listening"
    /\ page.microphone
    /\ Len(hist.sessionFrames) < MaxFrames
    /\ hist' = [hist EXCEPT !.sessionFrames = Append(@, db)]
    /\ page' = IF page.monitors = 0 THEN page
               ELSE IF page.isListening /\ page.analyser
               THEN [page EXCEPT !.volumeSamples = @ \o [i \in 1..page.monitors |-> db]]
               ELSE [page EXCEPT !.monitors = 0]
    /\ UNCHANGED <<voiceCall, timeouts, pulls, unlockReq, inbox>>
    /\ UNCHANGED <<storeVars, handlerVars, fnVars>>

\* click on Cancel
ClickCancel ==
    /\ page.isOverlayVisible
    /\ page.panel = "listening"
    /\ Settled
    /\ page' = cancelVoiceUnlock(page)
    /\ UNCHANGED <<voiceCall, timeouts, pulls, unlockReq, inbox, hist>>
    /\ UNCHANGED <<storeVars, handlerVars, fnVars>>

\* validatePhrase's isMatch for each transcript the engine may deliver
Verdicts == [t \in PageTranscripts |-> isMatch(t, UNLOCK_PHRASE).isMatch]

\* recognition.onresult of engine e, and validatePhrase up to its await.
\* continuous = false: the engine ends with its final result.
OnResult(e, transcript, isFinal) ==
    /\ e \in DOMAIN page.engines
    /\ Settled
    /\ IF ~isFinal
       THEN /\ page.engines[e] = "listening"
            /\ UNCHANGED <<page, timeouts, unlockReq, hist>>
       ELSE LET heard == [page EXCEPT !.engines[e] = "ended"]
                verdict == Verdicts[transcript]
                avgVolume == calculateAverageVolume(heard.volumeSamples)
                mapping == getVolumeDurationMapping(avgVolume)
                judged == [hist EXCEPT !.lastVerdict =
                              [accepted |-> verdict, transcript |-> transcript,
                               secretPhrase |-> settings.unlockPhrase]]
            IN  /\ page.engines[e] \in {"listening", "stopping"}
                /\ IF verdict
                   THEN /\ unlockReq.state = "none"
                        /\ hist.sent < MaxRequests
                        /\ page' = stopListening(heard)
                        /\ unlockReq' = [state |-> "sent", domain |-> heard.currentDomain,
                                         duration |-> mapping.duration]
                        /\ hist' = [judged EXCEPT !.sent = @ + 1]
                        /\ UNCHANGED timeouts
                   ELSE /\ page' = showResult(heard)
                        /\ timeouts' = timeouts \cup
                               {[kind |-> "resetUnlockUI", due |-> now + ResultDelay,
                                 seconds |-> 0]}
                        /\ hist' = judged
                        /\ UNCHANGED unlockReq
    /\ UNCHANGED <<voiceCall, pulls, inbox>>
    /\ UNCHANGED <<storeVars, handlerVars, fnVars>>

\* recognition.onerror of engine e
SpeechError(e) ==
    /\ e \in DOMAIN page.engines
    /\ Settled
    /\ page.engines[e] \in {"listening", "stopping"}
    /\ page' = cancelVoiceUnlock(showResult([page EXCEPT !.engines[e] = "ended"]))
    /\ UNCHANGED <<voiceCall, timeouts, pulls, unlockReq, inbox, hist>>
    /\ UNCHANGED <<storeVars, handlerVars, fnVars>>

\* recognition.onend of a stopped engine that had nothing to deliver
EngineEnds(e) ==
    /\ e \in DOMAIN page.engines
    /\ page.engines[e] = "stopping"
    /\ page' = [page EXCEPT !.engines[e] = "ended"]
    /\ UNCHANGED <<voiceCall, timeouts, pulls, unlockReq, inbox, hist>>
    /\ UNCHANGED <<storeVars, handlerVars, fnVars>>

\* the messages of notifyTabsForDomain that go to the page's tab
ToPage(messages) == {m \in messages : m.tab = PageTab}

\* handleMessage 'unlockSite' for the page's message: unlockSite(domain, duration)
ServeUnlockSite ==
    /\ unlockReq.state = "sent"
    /\ unlockTimers' = SetKey(unlockTimers, unlockReq.domain,
                              NewEntry(unlockReq.duration, now, now))
    /\ alarms' = SetKey(alarms, AlarmName(unlockReq.domain),
                        now + unlockReq.duration * MsPerSec)
    /\ inbox' = inbox \cup ToPage(notifyTabsForDomain(unlockReq.domain, "hideBlockOverlay",
                                                     unlockReq.duration))
    /\ unlockReq' = [unlockReq EXCEPT !.state = "answered"]
    /\ UNCHANGED <<page, voiceCall, timeouts, pulls, hist>>
    /\ UNCHANGED <<now, settings, handlerVars, fnVars>>

\* validatePhrase after the response { success: true } arrived
UnlockResult ==
    /\ unlockReq.state = "answered"
    /\ page' = showResult(page)
    /\ timeouts' = timeouts \cup {[kind |-> "hideBlockOverlay", due |-> now + ResultDelay,
                                   seconds |-> unlockReq.duration]}
    /\ unlockReq' = NoRequest
    /\ UNCHANGED <<voiceCall, pulls, inbox, hist>>
    /\ UNCHANGED <<storeVars, handlerVars, fnVars>>

\* a setTimeout callback of validatePhrase runs
TimeoutFires(t) ==
    /\ t \in timeouts
    /\ t.due <= now
    /\ timeouts' = timeouts \ {t}
    /\ page' = IF t.kind = "hideBlockOverlay"
               THEN startCountdownDisplay(hideBlockOverlay(page), t.seconds, now)
               ELSE resetUnlockUI(page)
    /\ UNCHANGED <<voiceCall, pulls, unlockReq, inbox, hist>>
    /\ UNCHANGED <<storeVars, handlerVars, fnVars>>

\* the setInterval callback of startCountdownDisplay
CountdownTick ==
    /\ page.countdownInterval.set
    /\ page.countdownInterval.due <= now
    /\ page' = IF page.countdownInterval.remaining - 1 <= 0
               THEN showBlockOverlay([page EXCEPT !.countdownInterval = NoInterval,
                                                  !.floating = FALSE])
               ELSE [page EXCEPT !.countdownInterval.remaining = @ - 1,
                                 !.countdownInterval.due = @ + MsPerSec]
    /\ UNCHANGED <<voiceCall, timeouts, pulls, unlockReq, inbox, hist>>
    /\ UNCHANGED <<storeVars, handlerVars, fnVars>>

\* chrome.alarms.onAlarm listener for a due alarm
PageAlarm(name) ==
    /\ name \in DOMAIN alarms
    /\ alarms[name] <= now
    /\ IsReblock(name)
    /\ alarms' = DeleteKey(alarms, name)
    /\ unlockTimers' = DeleteKey(unlockTimers, AlarmDomain(name))
    /\ inbox' = inbox \cup ToPage(notifyTabsForDomain(AlarmDomain(name), "showBlockOverlay", 0))
    /\ UNCHANGED <<page, voiceCall, timeouts, pulls, unlockReq, hist>>
    /\ UNCHANGED <<now, settings, handlerVars, fnVars>>

\* the instants at which a timer of the page or an alarm is due
Deadlines ==
    {t.due : t \in timeouts}
    \cup (IF page.countdownInterval.set THEN {page.countdownInterval.due} ELSE {})
    \cup {alarms[n] : n \in DOMAIN alarms}

\* time passes up to the next deadline, once everything due has run and no message
\* or permission prompt is pending
PageTick ==
    /\ Deadlines # {}
    /\ inbox = {}
    /\ pulls = <<>>
    /\ unlockReq.state = "none"
    /\ ~voiceCall
    /\ \A d \in Deadlines : d > now
    /\ \E d \in Deadlines :
         /\ \A x \in Deadlines : d <= x
         /\ d <= MaxPageSec * MsPerSec
         /\ now' = d
    /\ UNCHANGED pageVars
    /\ UNCHANGED <<settings, unlockTimers, alarms, handlerVars, fnVars>>

\* the popup's saveSettings: the user changes the settings once
PopupSaveSettings(s) ==
    /\ settings = DEFAULT_SETTINGS
    /\ s # DEFAULT_SETTINGS
    /\ SaveSettings(s)

InitPage ==
    /\ AuthorityIdle
    /\ fnIn = <<>>
    /\ fnOut = <<>>

NextPage ==
    \/ InitStart
    \/ VisibilityStart
    \/ ServeCheckBlocked
    \/ InitFinish
    \/ VisibilityFinish
    \/ \E m \in inbox : ReceivePush(m)
    \/ \E m \in inbox : LosePush(m)
    \/ ClickVoiceUnlock
    \/ \E db \in Levels : MicGranted(db)
    \/ MicDenied
    \/ \E db \in Levels : AnimationFrame(db)
    \/ ClickCancel
    \/ \E e \in 1..MaxSessions, t \in PageTranscripts, f \in BOOLEAN : OnResult(e, t, f)
    \/ \E e \in 1..MaxSessions : SpeechError(e)
    \/ \E e \in 1..MaxSessions : EngineEnds(e)
    \/ ServeUnlockSite
    \/ UnlockResult
    \/ \E t \in timeouts : TimeoutFires(t)
    \/ CountdownTick
    \/ \E n \in AlarmNames : PageAlarm(n)
    \/ \E s \in SettingsPool : PopupSaveSettings(s)
    \/ PageTick

SpecPage == InitPage /\ [][NextPage]_vars

-----------------------------------------------------------------------------
(* Loudness reduction: calculateAverageVolume and getVolumeDurationMapping as
   validatePhrase calls them on the buffer of a session *)

\* longest loudness buffer drawn
MaxSamples == 10

\* levels around every breakpoint boundary, below the lowest minimum and at 0 dB
DbLevels == {-60, -50, -36, -35, -25, -15, -5, -1, 0}

\* short buffers over every level, longer ones over two levels
VolumeBuffers ==
    SeqsUpTo(DbLevels, 2) \cup {s \in SeqsUpTo(Levels, MaxSamples) : Len(s) > 2}

InitVolume ==
    /\ fnIn \in VolumeBuffers
    /\ fnOut = NotRun
    /\ AuthorityIdle

\* const avgVolume = calculateAverageVolume();
\* const mapping = getVolumeDurationMapping(avgVolume);
RunCalculateAverageVolume ==
    /\ ~fnOut.done
    /\ LET avgVolume == calculateAverageVolume(fnIn)
       IN  fnOut' = [done |-> TRUE,
                     value |-> [avgVolume |-> avgVolume,
                                mapping |-> getVolumeDurationMapping(avgVolume)]]
    /\ UNCHANGED <<fnIn, authVars, pageVars>>

NextVolume == RunCalculateAverageVolume

SpecVolume == InitVolume /\ [][NextVolume]_vars

-----------------------------------------------------------------------------
(* The periodic sweep when every wake-up is lost: unlockSite calls, the clock and
   cleanupExpiredTimers.  setInterval keeps firing and the awaited storage and
   tabs calls of a started handler complete, hence the weak fairness. *)

NextSweep ==
    \/ \E c \in Callers, d \in Domains, s \in Durations : UnlockSiteStart(c, d, s)
    \/ \E c \in Callers : UnlockSiteStore(c)
    \/ \E c \in Callers : UnlockSiteArm(c)
    \/ \E c \in Callers : UnlockSiteNotify(c)
    \/ \E c \in Callers : UnlockSiteReturn(c)
    \/ SweepStart
    \/ SweepFinish
    \/ Tick

SpecSweep ==
    /\ Init
    /\ [][NextSweep]_vars
    /\ WF_vars(SweepStart)
    /\ WF_vars(SweepFinish)
    /\ \A c \in Callers :
         /\ WF_vars(UnlockSiteStore(c))
         /\ WF_vars(UnlockSiteArm(c))
         /\ WF_vars(UnlockSiteNotify(c))
         /\ WF_vars(UnlockSiteReturn(c))

-----------------------------------------------------------------------------
(* The page with its scheduling: a sent message is answered or lost, the
   permission prompt is answered, timers and alarms that are due run, and the
   clock moves on. *)

\* a step the browser takes on its own, without the user or the speech engine
BrowserStep ==
    \/ ServeCheckBlocked
    \/ InitFinish
    \/ VisibilityFinish
    \/ \E m \in inbox : ReceivePush(m) \/ LosePush(m)
    \/ (\E db \in Levels : MicGranted(db)) \/ MicDenied
    \/ ServeUnlockSite
    \/ UnlockResult
    \/ \E t \in timeouts : TimeoutFires(t)
    \/ CountdownTick
    \/ \E n \in AlarmNames : PageAlarm(n)
    \/ PageTick

PageFairness == WF_vars(BrowserStep)

\* the page without loudness readings: every capture has an empty buffer
NextPageLive ==
    \/ InitStart
    \/ VisibilityStart
    \/ ServeCheckBlocked
    \/ InitFinish
    \/ VisibilityFinish
    \/ \E m \in inbox : ReceivePush(m)
    \/ \E m \in inbox : LosePush(m)
    \/ ClickVoiceUnlock
    \/ \E db \in Levels : MicGranted(db)
    \/ MicDenied
    \/ ClickCancel
    \/ \E e \in 1..MaxSessions, t \in PageTranscripts, f \in BOOLEAN : OnResult(e, t, f)
    \/ \E e \in 1..MaxSessions : SpeechError(e)
    \/ \E e \in 1..MaxSessions : EngineEnds(e)
    \/ ServeUnlockSite
    \/ UnlockResult
    \/ \E t \in timeouts : TimeoutFires(t)
    \/ CountdownTick
    \/ \E n \in AlarmNames : PageAlarm(n)
    \/ \E s \in SettingsPool : PopupSaveSettings(s)
    \/ PageTick

SpecPageLive == InitPage /\ [][NextPageLive]_vars /\ PageFairness

-----------------------------------------------------------------------------
(* unlockSite messages with any duration: handleMessage passes message.duration on
   as it arrives *)

\* durations a message may carry: negative, zero, positive
RequestDurations == {-1, 0, 1}

NextRequest ==
    \/ \E c \in Callers, d \in Domains, s \in RequestDurations : UnlockSiteStart(c, d, s)
    \/ \E c \in Callers : UnlockSiteStore(c)
    \/ \E c \in Callers : UnlockSiteArm(c)
    \/ \E c \in Callers : UnlockSiteNotify(c)
    \/ \E c \in Callers : UnlockSiteReturn(c)
    \/ Tick

SpecRequest == Init /\ [][NextRequest]_vars

-----------------------------------------------------------------------------
(* Reads alone: checkBlocked, getUnlockStatus and getRemainingTime over any settings
   and any ledger, each entry with its wake-up pending *)

InitRead ==
    /\ now = 0
    /\ settings \in SettingsPool
    /\ unlockTimers \in Ledgers
    /\ alarms = [n \in {AlarmName(d) : d \in DOMAIN unlockTimers} |->
                    unlockTimers[AlarmDomain(n)].unlockedUntil]
    /\ unlockCalls = [c \in Callers |-> IdleCall]
    /\ alarmCalls = [n \in AlarmNames |-> IdleTask]
    /\ sweep = IdleTask
    /\ pull = IdlePull
    /\ lastGrant = [d \in Domains |-> NoGrant]
    /\ grants = 0
    /\ FnIdle

NextRead ==
    \/ \E url \in Urls : CheckBlockedStart(url)
    \/ CheckBlockedMatch
    \/ \E d \in Domains : GetUnlockStatusStart(d)
    \/ IsDomainUnlockedFinish
    \/ PullRespond
    \/ Tick

SpecRead == InitRead /\ [][NextRead]_vars

-----------------------------------------------------------------------------
(* Restarts of the service worker: its handlers in flight are lost, chrome.storage
   and chrome.alarms stay.  The top level of the script registers the listeners and
   the interval (lines 40, 199, 292, 312) and runs nothing else; the onInstalled
   listener runs only when the start comes with an install or update. *)

\* starts of the service worker in one run
MaxRestarts == 2

\* in-memory state of the worker after a start
WorkerStarted ==
    /\ boots < MaxRestarts
    /\ boots' = boots + 1
    /\ unlockCalls' = [c \in Callers |-> IdleCall]
    /\ alarmCalls' = [n \in AlarmNames |-> IdleTask]
    /\ pull' = IdlePull
    /\ UNCHANGED <<now, settings, unlockTimers, alarms, lastGrant, grants>>
    /\ UNCHANGED <<fnVars, pageVars>>

\* the worker is stopped and started again by the browser
Restart ==
    /\ WorkerStarted
    /\ sweep' = IdleTask

\* the worker starts after an update: the onInstalled listener finds the settings
\* and calls cleanupExpiredTimers, which reads 'unlockTimers'
Installed ==
    /\ WorkerStarted
    /\ sweep' = [IdleTask EXCEPT !.pc = "gotTimers", !.timers = unlockTimers]

NextRestart ==
    \/ Restart
    \/ Installed
    \/ SweepStart
    \/ SweepFinish
    \/ \E d \in Domains : GetUnlockStatusStart(d)
    \/ IsDomainUnlockedFinish
    \/ PullRespond
    \/ \E n \in AlarmNames : AlarmFire(n)
    \/ \E n \in AlarmNames : AlarmEvict(n)
    \/ \E n \in AlarmNames : AlarmNotify(n)
    \/ \E n \in AlarmNames : AlarmReturn(n)
    \/ Tick

SpecRestart == InitEvict /\ [][NextRestart]_vars

-----------------------------------------------------------------------------
(* In-page tampering: a script or the inspector removes the overlay node from
   document.body.  The MutationObserver callback runs as a microtask of the same
   task, before any other handler of the page. *)

\* the MutationObserver callback for a removed node with the overlay's id
MutationObserved(p) ==
    IF p.isOverlayVisible THEN showBlockOverlay(p) ELSE p

\* the overlay node is removed from the document: none of its panels is left
RemoveOverlayNode ==
    /\ page.isOverlayVisible
    /\ page.panel # "none"
    /\ page' = MutationObserved([page EXCEPT !.panel = "none"])
    /\ UNCHANGED <<voiceCall, timeouts, pulls, unlockReq, inbox, hist>>
    /\ UNCHANGED <<storeVars, handlerVars, fnVars>>

NextTamper ==
    \/ InitStart
    \/ VisibilityStart
    \/ ServeCheckBlocked
    \/ InitFinish
    \/ VisibilityFinish
    \/ \E m \in inbox : ReceivePush(m)
    \/ \E m \in inbox : LosePush(m)
    \/ ClickVoiceUnlock
    \/ \E db \in Levels : MicGranted(db)
    \/ MicDenied
    \/ ClickCancel
    \/ \E e \in 1..MaxSessions, t \in PageTranscripts, f \in BOOLEAN : OnResult(e, t, f)
    \/ \E e \in 1..MaxSessions : SpeechError(e)
    \/ \E e \in 1..MaxSessions : EngineEnds(e)
    \/ ServeUnlockSite
    \/ UnlockResult
    \/ \E t \in timeouts : TimeoutFires(t)
    \/ CountdownTick
    \/ \E n \in AlarmNames : PageAlarm(n)
    \/ PageTick
    \/ RemoveOverlayNode

SpecTamper == InitPage /\ [][NextTamper]_vars

-----------------------------------------------------------------------------
(* Re-blocking: unlockSite calls, the alarm listener with its showBlockOverlay
   pushes, and settings changes *)

NextReblock ==
    \/ \E n \in AlarmNames : AlarmFire(n)
    \/ \E n \in AlarmNames : AlarmEvict(n)
    \/ \E n \in AlarmNames : AlarmNotify(n)
    \/ \E n \in AlarmNames : AlarmReturn(n)
    \/ \E s \in SettingsPool : SaveSettings(s)
    \/ \E c \in Callers, d \in Domains, s \in Durations : UnlockSiteStart(c, d, s)
    \/ \E c \in Callers : UnlockSiteStore(c)
    \/ \E c \in Callers : UnlockSiteArm(c)
    \/ \E c \in Callers : UnlockSiteNotify(c)
    \/ \E c \in Callers : UnlockSiteReturn(c)
    \/ Tick

SpecReblock == Init /\ [][NextReblock]_vars

-----------------------------------------------------------------------------
(* Claims *)

\* hostname equals the rule's domain or is a subdomain of it
IsSubdomainOrSame(hostname, domain) ==
    \/ hostname = domain
    \/ \E k \in 1..Len(hostname) :
         /\ hostname[k] = "."
         /\ SubSeq(hostname, k + 1, Len(hostname)) = domain

SomeEnabledRuleMatches(url, blockedSites) ==
    /\ url.parses
    /\ \E i \in 1..Len(blockedSites) :
         /\ blockedSites[i].enabled
         /\ IsSubdomainOrSame(toLowerCase(url.host), blockedSites[i].domain)

\* C1: a finished checkBlocked reports blocked exactly when the settings it read are
\* enabled, the url's host matches an enabled rule, and the ledger it read holds no
\* entry for the matched domain with unlockedUntil > the time it read.
C1_BlockedIffEnabledMatchedNotLive ==
    (pull.pc = "done" /\ pull.kind = "checkBlocked") =>
        (pull.result.shouldBlock <=>
            /\ pull.settings.enabled
            /\ SomeEnabledRuleMatches(pull.url, pull.settings.blockedSites)
            /\ LET d == getBlockedDomain(pull.url, pull.settings.blockedSites)
               IN  ~(d \in DOMAIN pull.timers /\ pull.timers[d].unlockedUntil > pull.nowRead))

\* a checkBlocked for a matched domain found a live entry and answered not blocked
C1_Witness ==
    /\ pull.pc = "done" /\ pull.kind = "checkBlocked"
    /\ pull.settings.enabled
    /\ pull.result.domain = DomA
    /\ ~pull.result.shouldBlock
    /\ pull.result.remainingTime > 0


\* C2: getBlockedDomain returns a domain exactly when the url parses and its lowercased
\* hostname equals, or is a subdomain of, the domain of some enabled rule; the domain
\* returned is that of such a rule; an unparsable url gives null.
C2_MatchIffEnabledRule ==
    fnOut.done =>
        /\ (fnOut.value # NULL) <=> SomeEnabledRuleMatches(fnIn.url, fnIn.blockedSites)
        /\ (fnOut.value # NULL) =>
              \E i \in 1..Len(fnIn.blockedSites) :
                  /\ fnIn.blockedSites[i].enabled
                  /\ fnIn.blockedSites[i].domain = fnOut.value
                  /\ IsSubdomainOrSame(toLowerCase(fnIn.url.host), fnOut.value)
        /\ ~fnIn.url.parses => fnOut.value = NULL

\* a mixed-case subdomain matched the second rule, the first one being disabled
C2_Witness ==
    /\ fnOut.done
    /\ fnOut.value = <<"a">>
    /\ fnIn.url.host = <<"b", ".", "A">>
    /\ Len(fnIn.blockedSites) = 2
    /\ ~fnIn.blockedSites[1].enabled


\* C3: a status read that starts after the last grant (d, s) stamped at T and takes its
\* time T + k seconds reports d live with remainingTime = s - k when k < s, and not live
\* with remainingTime = 0 when k >= s, whether or not an alarm or a sweep has run.
C3_LazyReadFollowsGrant ==
    (/\ pull.pc = "done" /\ pull.kind = "getUnlockStatus"
     /\ pull.granted # NoGrant
     /\ pull.granted = lastGrant[pull.domain]
     /\ pull.nowRead >= pull.granted.T
     /\ (pull.nowRead - pull.granted.T) % MsPerSec = 0)
    => LET s == pull.granted.s
           k == (pull.nowRead - pull.granted.T) \div MsPerSec
       IN  IF k < s
           THEN ~pull.result.shouldBlock /\ pull.result.remainingTime = s - k
           ELSE pull.result.shouldBlock /\ pull.result.remainingTime = 0

\* C5: a ledger entry that is still live is not removed by the write-back of an alarm
\* eviction or of a sweep.
C5_EvictionKeepsLiveEntries ==
    [][ ((sweep.pc = "gotTimers" /\ sweep'.pc = "idle")
         \/ \E n \in AlarmNames : alarmCalls[n].pc = "gotTimers" /\ alarmCalls'[n].pc = "stored")
        => \A d \in DOMAIN unlockTimers :
              unlockTimers[d].unlockedUntil > now =>
                  d \in DOMAIN unlockTimers' /\ unlockTimers'[d] = unlockTimers[d] ]_vars


\* the edit distance by its defining recurrence: the cheapest of deleting the last
\* character of a, inserting the last character of b, or pairing the two last
\* characters (free when equal, one substitution otherwise)
RECURSIVE EditRow(_, _, _, _, _)
EditRow(a, b, i, prev, cur) ==
    IF Len(cur) = Len(b) + 1
    THEN cur
    ELSE LET j == Len(cur)
         IN  EditRow(a, b, i, prev,
                 Append(cur, Min3(prev[j + 1] + 1, cur[j] + 1,
                                  prev[j] + (IF a[i] = b[j] THEN 0 ELSE 1))))

RECURSIVE EditRows(_, _, _, _)
EditRows(a, b, i, prev) ==
    IF i > Len(a) THEN prev
    ELSE EditRows(a, b, i + 1, EditRow(a, b, i, prev, <<i>>))

EditDistance(a, b) ==
    EditRows(a, b, 1, [j \in 1..(Len(b) + 1) |-> j - 1])[Len(b) + 1]

\* s with its blanks at both ends removed, said without recursion
Trimmed(s) ==
    IF \A i \in 1..Len(s) : s[i] = " "
    THEN <<>>
    ELSE LET first == CHOOSE i \in 1..Len(s) :
                          s[i] # " " /\ \A k \in 1..(i - 1) : s[k] = " "
             last  == CHOOSE i \in 1..Len(s) :
                          s[i] # " " /\ \A k \in (i + 1)..Len(s) : s[k] = " "
         IN  SubSeq(s, first, last)

ContainsPhrase(t, p) ==
    \E k \in 1..(Len(t) + 1) :
        /\ k + Len(p) - 1 <= Len(t)
        /\ \A i \in 1..Len(p) : t[k + i - 1] = p[i]

\* C7: phrase verification accepts a transcript exactly when, both lowercased and
\* trimmed, the transcript contains the phrase or their unit-cost edit distance is at
\* most 3; the distance levenshteinDistance returns is the true edit distance.
C7_AcceptsIffContainsOrWithinThree ==
    fnOut.done =>
        LET t == Trimmed(toLowerCase(fnIn))
            p == Trimmed(toLowerCase(UNLOCK_PHRASE))
        IN  /\ fnOut.value.distance = EditDistance(t, p)
            /\ fnOut.value.isMatch <=> (ContainsPhrase(t, p) \/ EditDistance(t, p) <= 3)

\* C7 happens: a capitalised, padded transcript three substitutions away from the
\* phrase, not containing it, was accepted
C7_Witness ==
    /\ fnOut.done
    /\ fnIn # Trimmed(toLowerCase(fnIn))
    /\ Len(fnIn) = Len(UNLOCK_PHRASE) + 3
    /\ EditDistance(Trimmed(toLowerCase(fnIn)), UNLOCK_PHRASE) = 3
    /\ ~ContainsPhrase(Trimmed(toLowerCase(fnIn)), UNLOCK_PHRASE)
    /\ fnOut.value.isMatch


\* the page processes the response of a checkBlocked in this step
PullProcessed == pulls # <<>> /\ Head(pulls).answered /\ pulls' = Tail(pulls)

\* C4: with no push delivered, once the page has processed the response of a
\* checkBlocked it sent on load or on becoming visible, its overlay is shown exactly
\* when the response said blocked.
C4_OverlayFollowsPull ==
    [][ (PullProcessed /\ ~hist.pushed)
          => (page'.isOverlayVisible <=> Head(pulls).result.shouldBlock) ]_vars

\* the page sends its unlockSite message in this step
GrantRequestSent == unlockReq.state = "none" /\ unlockReq'.state = "sent"

\* the final transcript of this step came from the engine of the current session
FromCurrentSession ==
    /\ page.recognition # 0
    /\ page.engines[page.recognition] = "listening"
    /\ page'.engines[page.recognition] = "ended"

\* C6: a grant request is sent only on a final transcript delivered by the engine
\* of the page's current capture session, never after the session was stopped.
C6_GrantOnlyFromCurrentSession ==
    [][ GrantRequestSent => FromCurrentSession ]_vars

\* C8: when a transcript of the current session passes, the loudness buffer holds
\* the frames of that session and the duration asked for is the one the table gives
\* their average.
C8_BufferHoldsSessionFrames ==
    [][ (GrantRequestSent /\ FromCurrentSession)
          => /\ page.volumeSamples = hist.sessionFrames
             /\ unlockReq'.duration =
                  getVolumeDurationMapping(
                      calculateAverageVolume(hist.sessionFrames)).duration ]_vars

\* C9: a final transcript is accepted exactly when it matches the unlockPhrase that
\* Settings holds at that moment.
C9_VerifiedAgainstSettingsPhrase ==
    hist.lastVerdict.transcript # <<>>
        => (hist.lastVerdict.accepted
              <=> isMatch(hist.lastVerdict.transcript, hist.lastVerdict.secretPhrase).isMatch)

\* C10: the overlay being shown and the local countdown running with its floating
\* timer displayed are mutually exclusive in every state of the page.
C10_OverlayExcludesCountdown ==
    ~(page.isOverlayVisible /\ page.countdownInterval.set /\ page.floating)


\* a handler that evicted d has sent showBlockOverlay to every tab on d
LockedPushed(d, sent) ==
    notifyTabsForDomain(d, "showBlockOverlay", 0) \subseteq sent

\* C11: a handler that evicted an expired entry of domain d - the alarm listener or
\* the periodic sweep - ends having sent showBlockOverlay to every open tab on d.
C11_EvictionPushesLocked ==
    [][ /\ \A n \in AlarmNames :
             (alarmCalls[n].pc = "done" /\ alarmCalls'[n].pc = "idle")
                 => LockedPushed(AlarmDomain(n), alarmCalls[n].sent)
        /\ \A d \in Domains :
             (/\ sweep.pc = "gotTimers" /\ sweep'.pc = "idle"
              /\ d \in DOMAIN unlockTimers /\ d \notin DOMAIN unlockTimers')
                 => LockedPushed(d, sweep'.sent) ]_vars


\* the first enabled rule whose domain the tab's host equals or is a subdomain of is d
TabMatches(tab, d, blockedSites) ==
    /\ TabUrl(tab).parses
    /\ \E i \in 1..Len(blockedSites) :
         /\ blockedSites[i].enabled
         /\ blockedSites[i].domain = d
         /\ IsSubdomainOrSame(toLowerCase(TabUrl(tab).host), d)
         /\ \A j \in 1..(i - 1) :
              ~(/\ blockedSites[j].enabled
                /\ IsSubdomainOrSame(toLowerCase(TabUrl(tab).host), blockedSites[j].domain))

\* C12: when unlockSite(d, s) notifies, it sends hideBlockOverlay with
\* remainingTime = s to every open tab whose url matches d under the rule list, and
\* nothing to any other tab.
C12_UnlockedPushToMatchingTabs ==
    [][ \A c \in Callers :
          (unlockCalls[c].pc = "notify" /\ unlockCalls'[c].pc = "done")
            => /\ \A tab \in Tabs :
                    TabMatches(tab, unlockCalls[c].domain, settings.blockedSites)
                      <=> (\E m \in unlockCalls'[c].sent : m.tab = tab)
               /\ \A m \in unlockCalls'[c].sent :
                    /\ m.action = "hideBlockOverlay"
                    /\ m.domain = unlockCalls[c].domain
                    /\ m.remainingTime = unlockCalls[c].durationSeconds ]_vars

\* C12 happens: a grant for a.c has notified the tab on w.a.c and not the tab on b.c
C12_Witness ==
    \E c \in Callers :
        /\ unlockCalls[c].pc = "done"
        /\ unlockCalls[c].domain = DomA
        /\ {m.tab : m \in unlockCalls[c].sent} = {"tabA"}


\* C13: once a capture session has been stopped (Cancel), the end of its engine has
\* no effect on the page: no verdict, no result panel, no timer, no grant request.
C13_StoppedSessionHasNoEffect ==
    [][ \A e \in 1..MaxSessions :
          (/\ e \in DOMAIN page.engines
           /\ page.engines[e] = "stopping"
           /\ page'.engines[e] = "ended")
            => /\ hist'.lastVerdict = hist.lastVerdict
               /\ unlockReq' = unlockReq
               /\ timeouts' = timeouts
               /\ page'.panel = page.panel ]_vars


\* C14, in states: once the alarm listener of d has written, d is absent from the
\* ledger, whatever the sweep does before or after
AbsentAfterAlarm ==
    \A n \in AlarmNames :
        alarmCalls[n].pc \in {"stored", "done"} => AlarmDomain(n) \notin DOMAIN unlockTimers

\* C14, in steps: a finishing sweep removes every expired entry it read, and an
\* alarm eviction that finds d already absent from the ledger changes nothing
EvictionSteps ==
    /\ (sweep.pc = "gotTimers" /\ sweep'.pc = "idle")
         => \A d \in DOMAIN sweep.timers :
               sweep.timers[d].unlockedUntil <= now => d \notin DOMAIN unlockTimers'
    /\ \A n \in AlarmNames :
         (/\ alarmCalls[n].pc = "gotTimers" /\ alarmCalls'[n].pc = "stored"
          /\ AlarmDomain(n) \notin DOMAIN unlockTimers)
            => unlockTimers' = unlockTimers

\* C14: evicting d twice, or racing d's alarm eviction with the sweep's eviction of
\* the same expired entry, ends with d absent; evicting an absent d changes nothing.
C14_EvictionIdempotent == []AbsentAfterAlarm /\ [][EvictionSteps]_vars


\* breakpoints whose [minDb, maxDb) interval holds the level sum / count
BreakpointsAt(avg) ==
    {i \in 1..Len(VOLUME_DURATION_MAP) :
        /\ VOLUME_DURATION_MAP[i].minDb * avg.count <= avg.sum
        /\ avg.sum < VOLUME_DURATION_MAP[i].maxDb * avg.count}

\* C15: for every level (the empty-buffer fallback -60 and levels outside every
\* interval included) no two breakpoints' [min, max) intervals hold the level, and
\* getVolumeDurationMapping returns one breakpoint of VOLUME_DURATION_MAP: the one
\* whose interval holds the level, or the lowest when none does
C15_LookupTotalUnambiguous ==
    fnOut.done =>
        LET at == BreakpointsAt(fnOut.value.avgVolume)
        IN  /\ Cardinality(at) <= 1
            /\ \E i \in 1..Len(VOLUME_DURATION_MAP) :
                 /\ fnOut.value.mapping = VOLUME_DURATION_MAP[i]
                 /\ IF at = {} THEN i = 1 ELSE i \in at

\* C15 happens: the lookup ran on the fallback level of an empty buffer, which
\* is below the lowest minimum, and returned the lowest breakpoint
C15_Witness ==
    /\ fnOut.done
    /\ fnIn = <<>>
    /\ BreakpointsAt(fnOut.value.avgVolume) = {}
    /\ fnOut.value.mapping = VOLUME_DURATION_MAP[1]

\* C16: the average of a buffer of n samples is the mean of the sorted samples
\* left after removing the floor(n/10) lowest and the floor(n/10) highest
C16_TrimsFloorTenthEachEnd ==
    (fnOut.done /\ Len(fnIn) > 0) =>
        LET n == Len(fnIn)
            kept == SubSeq(sorted(fnIn), (n \div 10) + 1, n - (n \div 10))
        IN  fnOut.value.avgVolume.sum * Len(kept) = SumOf(kept) * fnOut.value.avgVolume.count


\* C17: the ledger is keyed by domain, and when unlockSite(d, s2) writes at time T2
\* while the ledger holds an entry for d, the entry for d it leaves has expiry
\* T2 + s2 seconds, whatever the earlier entry was
C17_GrantOverwrites ==
    [][ \A c \in Callers :
          (/\ unlockCalls[c].pc = "gotTimers" /\ unlockCalls'[c].pc = "stored"
           /\ unlockCalls[c].domain \in DOMAIN unlockTimers)
          => /\ DOMAIN unlockTimers' \subseteq Domains
             /\ unlockCalls[c].domain \in DOMAIN unlockTimers'
             /\ unlockTimers'[unlockCalls[c].domain].unlockedUntil
                  = now + unlockCalls[c].durationSeconds * MsPerSec ]_vars

\* C17 happens: a grant of 2 seconds for DomA was stored and armed, and a later
\* grant of 1 second for DomA has just been stored: the entry expires earlier
\* than the wake-up of the first grant
C17_Witness ==
    \E c \in Callers :
        /\ unlockCalls[c].pc = "stored"
        /\ unlockCalls[c].domain = DomA
        /\ unlockCalls[c].durationSeconds = 1
        /\ lastGrant[DomA].s = 1
        /\ DomA \in DOMAIN unlockTimers
        /\ unlockTimers[DomA].unlockedUntil = lastGrant[DomA].T + MsPerSec
        /\ AlarmName(DomA) \in DOMAIN alarms
        /\ alarms[AlarmName(DomA)] > unlockTimers[DomA].unlockedUntil
        /\ \E c2 \in Callers \ {c} :
             /\ unlockCalls[c2].pc \in {"notify", "done"}
             /\ unlockCalls[c2].domain = DomA
             /\ unlockCalls[c2].durationSeconds = 2
             /\ unlockCalls[c2].timers[DomA].unlockedUntil > unlockTimers[DomA].unlockedUntil


\* the persisted ledger holds an entry for d with unlockedUntil <= now
Expired(d) == d \in DOMAIN unlockTimers /\ unlockTimers[d].unlockedUntil <= now

\* a finishing sweep keeps, in the object it writes, every entry it read with
\* unlockedUntil > now, and an entry it read and drops has unlockedUntil <= now
SweepSelectsExpired ==
    (sweep.pc = "gotTimers" /\ sweep'.pc = "idle")
    => /\ \A d \in DOMAIN sweep.timers :
            sweep.timers[d].unlockedUntil > now
               => (unlockTimers' # unlockTimers => (d \in DOMAIN unlockTimers'
                                                     /\ unlockTimers'[d] = sweep.timers[d]))
       /\ \A d \in (DOMAIN sweep.timers \cap DOMAIN unlockTimers) \ DOMAIN unlockTimers' :
            sweep.timers[d].unlockedUntil <= now

\* C18: with no wake-up ever firing and the sweep running again and again, every
\* ledger entry with unlockedUntil <= now is eventually gone from the persisted
\* ledger, and the sweep never drops an entry it read with unlockedUntil > now
C18_SweepEventuallyEvicts ==
    /\ \A d \in Domains : Expired(d) ~> ~Expired(d)
    /\ [][SweepSelectsExpired]_vars

\* C18 happens: one grant only, for DomA, has expired with its wake-up still
\* pending, and the entry is gone from the ledger
C18_Witness ==
    /\ grants = 1
    /\ lastGrant[DomA] # NoGrant
    /\ now >= lastGrant[DomA].T + lastGrant[DomA].s * MsPerSec
    /\ AlarmName(DomA) \in DOMAIN alarms
    /\ DomA \notin DOMAIN unlockTimers
    /\ sweep.pc = "idle"


\* no unlockSite call for d is between its start and its return
GrantsCompleted(d) == \A c \in Callers : unlockCalls[c].pc = "idle" \/ unlockCalls[c].domain # d

\* C19: alarms are keyed by name, one per domain, and once the unlockSite calls for d
\* have returned, a pending wake-up reblock_d belongs to the entry the ledger holds
\* for d: the entry is there and the wake-up is not due before the entry's expiry
C19_WakeupMatchesEntry ==
    /\ DOMAIN alarms \subseteq AlarmNames
    /\ \A d \in Domains :
         (GrantsCompleted(d) /\ AlarmName(d) \in DOMAIN alarms)
         => /\ d \in DOMAIN unlockTimers
            /\ alarms[AlarmName(d)] >= unlockTimers[d].unlockedUntil


\* startVoiceUnlock's await ends in its catch: no speech engine was started
CaptureFails == voiceCall /\ ~voiceCall' /\ page'.engines = page.engines

\* C20, for the failure to start the capture (microphone denied, startAudioCapture
\* throws): with the overlay up, the failure leaves the result panel with its message
\* shown, sends no unlockSite request, and leaves no session running, so that a new
\* attempt can start
C20_FailureShowsRejection ==
    [][ (CaptureFails /\ page.isOverlayVisible)
        => /\ page'.panel = "result"
           /\ unlockReq' = unlockReq
           /\ ~page'.isListening
           /\ page'.recognition = 0 ]_vars


\* C21: whenever the overlay shows the unlock section or the result panel and no
\* startVoiceUnlock call is waiting for the microphone (the engine is in Idle,
\* Rejected or Granted), microphone, analyser and recognition are null, isListening
\* is false and no monitorVolume loop is scheduled
C21_ProducersReleasedOutsideCapture ==
    (page.panel \in {"unlock", "result"} /\ ~voiceCall)
    => /\ ~page.isListening
       /\ ~page.microphone
       /\ ~page.analyser
       /\ page.recognition = 0
       /\ page.monitors = 0


\* C22: every level from -50 up to and including 0 lies in the [minDb, maxDb)
\* interval of some breakpoint, so that the fallback to the lowest breakpoint is
\* taken only below -50
C22_TableHasNoGaps ==
    fnOut.done =>
        LET avg == fnOut.value.avgVolume
        IN  (-50 * avg.count <= avg.sum /\ avg.sum <= 0) => BreakpointsAt(avg) # {}

\* C23: the reduction yields a number and a breakpoint of the table for every
\* buffer: the empty buffer gives a level not above the lowest interval and the
\* lowest breakpoint (30 s); a non-empty buffer that trimming empties gives the
\* median of the sorted buffer
C23_ReductionAlwaysYieldsBreakpoint ==
    fnOut.done =>
        LET avg == fnOut.value.avgVolume
            n == Len(fnIn)
        IN  /\ avg.count > 0
            /\ \E i \in 1..Len(VOLUME_DURATION_MAP) : fnOut.value.mapping = VOLUME_DURATION_MAP[i]
            /\ n = 0 => /\ avg.sum < VOLUME_DURATION_MAP[1].maxDb * avg.count
                        /\ fnOut.value.mapping = VOLUME_DURATION_MAP[1]
                        /\ fnOut.value.mapping.duration = 30
            /\ (n > 0 /\ (9 * n) \div 10 <= n \div 10)
                 => avg.sum = sorted(fnIn)[(n \div 2) + 1] * avg.count

\* C23 happens: a buffer of one sample, which trimming empties, was reduced to
\* that sample and mapped to the breakpoint holding it
C23_Witness ==
    /\ fnOut.done
    /\ fnIn = <<-25>>
    /\ fnOut.value.avgVolume = [sum |-> -25, count |-> 1]
    /\ fnOut.value.mapping.duration = 120


\* validatePhrase judges a final transcript of a live or stopped engine a mismatch
MismatchStep ==
    /\ \E e \in DOMAIN page.engines :
         page.engines[e] # "ended" /\ page'.engines[e] = "ended"
    /\ hist'.lastVerdict # hist.lastVerdict
    /\ ~hist'.lastVerdict.accepted

\* the result panel is up after a mismatch, early enough for its delay to elapse
\* within the modelled time
Rejected ==
    /\ page.panel = "result"
    /\ hist.lastVerdict # NoVerdict
    /\ ~hist.lastVerdict.accepted
    /\ now + ResultDelay <= MaxPageSec * MsPerSec

\* C24: a mismatching final transcript puts up the result panel, sends no unlockSite
\* request and schedules resetUnlockUI after the display delay; and from the
\* rejection the page always gets back to the unlock section (or to no overlay)
C24_RejectedReturnsToIdle ==
    /\ [][ MismatchStep
           => /\ page.isOverlayVisible => page'.panel = "result"
              /\ unlockReq' = unlockReq
              /\ [kind |-> "resetUnlockUI", due |-> now + ResultDelay, seconds |-> 0]
                   \in timeouts' ]_vars
    /\ Rejected ~> (page.panel \in {"unlock", "none"})

\* C24 happens: the page shows the unlock section again, two seconds after the
\* mismatch was judged, and a click can start a new session
C24_Witness ==
    /\ page.panel = "unlock"
    /\ page.isOverlayVisible
    /\ hist.lastVerdict # NoVerdict
    /\ ~hist.lastVerdict.accepted
    /\ timeouts = {}
    /\ now >= ResultDelay
    /\ hist.sessions < MaxSessions
    /\ ~voiceCall
    /\ pulls = <<>>


\* C25: an unlockSite call whose durationSeconds is not positive writes no ledger
\* entry and arms no alarm
C25_NonPositiveDurationRejected ==
    [][ \A c \in Callers :
          unlockCalls[c].durationSeconds <= 0
          => /\ (unlockCalls[c].pc = "gotTimers" /\ unlockCalls'[c].pc = "stored")
                  => unlockTimers' = unlockTimers
             /\ (unlockCalls[c].pc = "stored" /\ unlockCalls'[c].pc = "notify")
                  => alarms' = alarms ]_vars


\* C26: every entry in the ledger has unlockedUntil = unlockedAt + 1000 * duration
\* for the positive duration of a grant, hence unlockedUntil > unlockedAt
C26_EntryIsGrantedAtPlusDuration ==
    \A d \in DOMAIN unlockTimers :
        /\ \E s \in Durations :
             unlockTimers[d].unlockedUntil = unlockTimers[d].unlockedAt + s * MsPerSec
        /\ unlockTimers[d].unlockedUntil > unlockTimers[d].unlockedAt


\* C27: no step of a checkBlocked, getUnlockStatus or getRemainingTime handler
\* changes the persisted settings, the persisted ledger or the pending alarms
C27_ReadsHaveNoSideEffect ==
    [][ pull' # pull
        => /\ settings' = settings
           /\ unlockTimers' = unlockTimers
           /\ alarms' = alarms ]_vars

\* C27 happens: a checkBlocked found the entry of its domain expired and answered
\* blocked, and the entry and its wake-up are still where they were
C27_Witness ==
    /\ pull.pc = "done"
    /\ pull.kind = "checkBlocked"
    /\ pull.result.shouldBlock
    /\ pull.domain \in DOMAIN unlockTimers
    /\ unlockTimers[pull.domain].unlockedUntil <= pull.nowRead
    /\ AlarmName(pull.domain) \in DOMAIN alarms


\* C28: a start of the service worker keeps every ledger entry with
\* unlockedUntil > now, and, when the start itself has finished (no
\* cleanupExpiredTimers of an onInstalled listener is still running), the persisted
\* ledger holds no entry with unlockedUntil <= now
C28_RestartKeepsLiveEvictsExpired ==
    [][ boots' # boots
        => /\ \A d \in DOMAIN unlockTimers :
                unlockTimers[d].unlockedUntil > now
                  => d \in DOMAIN unlockTimers' /\ unlockTimers'[d] = unlockTimers[d]
           /\ sweep'.pc = "idle"
                => \A d \in DOMAIN unlockTimers' : unlockTimers'[d].unlockedUntil > now ]_vars


\* C29: while the page is blocked (isOverlayVisible) the overlay node is in the
\* document, also after the node has been removed by tampering and the
\* MutationObserver has seen the removal
C29_BlockedPageKeepsOverlay ==
    page.isOverlayVisible => page.panel # "none"


\* C30: the write of an unlockSite call for d, and the write of the alarm listener
\* of d, leave the entry or the absence of every other domain b as the completed
\* operations on b left it (no unlockSite call or alarm listener for b is running)
C30_OtherDomainsUntouched ==
    [][ \A d \in Domains :
          (\/ \E c \in Callers : /\ unlockCalls[c].pc = "gotTimers"
                                 /\ unlockCalls'[c].pc = "stored"
                                 /\ unlockCalls[c].domain = d
           \/ /\ alarmCalls[AlarmName(d)].pc = "gotTimers"
              /\ alarmCalls'[AlarmName(d)].pc = "stored")
          => \A b \in Domains \ {d} :
               (GrantsCompleted(b) /\ alarmCalls[AlarmName(b)].pc = "idle")
               => /\ b \in DOMAIN unlockTimers <=> b \in DOMAIN unlockTimers'
                  /\ b \in DOMAIN unlockTimers => unlockTimers'[b] = unlockTimers[b] ]_vars


\* C31: when the alarm listener sends its showBlockOverlay messages, shouldBlockTab
\* for the url of every tab it sends to is blocked under the settings and the ledger
\* of that moment: blocking is enabled and the tab's domain holds no live entry
C31_LockedPushAgreesWithDecision ==
    [][ \A n \in AlarmNames :
          (alarmCalls[n].pc = "stored" /\ alarmCalls'[n].pc = "done")
          => \A m \in alarmCalls'[n].sent :
               /\ m.action = "showBlockOverlay"
               /\ shouldBlockTab(TabUrl(m.tab), settings, unlockTimers, now).shouldBlock ]_vars

=============================================================================
